---- MODULE Spec2Model ----
(***************************************************************************)
(* Model of the two Scrapy spiders of the TIAS scraper:                    *)
(*   TiasLinksSpider (src/tias_links_spider.py): yearly index pages ->     *)
(*     agreement links;                                                    *)
(*   TiasPdfSpider (src/tias_pdf_spider.py): agreement pages -> records.   *)
(* Python strings are sequences of one-character strings, so that the      *)
(* regular expressions, strip(), lower(), split(), join() and urljoin()    *)
(* are computed character by character, as the code computes them.         *)
(*                                                                         *)
(* Spec is a whole crawl of either spider: every argument value, every     *)
(* request, a few pages.  SpecPage is a single request of either spider    *)
(* whose page is drawn from a wide set.  Both run the same handlers.       *)
(* The selectors of parsel are read off the structure of the page; the     *)
(* downloader hands each request to parse or to errback, as scrapy does.   *)
(***************************************************************************)
EXTENDS Naturals, Integers, Sequences, FiniteSets

VARIABLES
    spider,        \* name of the spider that is run
    pc,            \* "new" -> "constructed" -> "crawling"
    max_years,     \* TiasLinksSpider argument: <<>> (None) or <<string>>
    urls_file,     \* TiasPdfSpider argument: <<>> (None) or <<lines of the file>>
    treaty_years,  \* the 'Years' column of the remote treaty_years.csv, as strings
    year_urls,     \* TiasLinksSpider.year_urls
    start_urls,    \* TiasPdfSpider.start_urls
    init_log,      \* log lines written by __init__
    requests,      \* the requests start_requests has yielded (their URLs)
    delivered,     \* per request: <<>> or <<what the downloader delivered>>
    handled,       \* requests whose callback or errback has run
    items,         \* per request: the items its callback yielded, in order
    logs,          \* per request: the log lines its callback or errback wrote
    debug_html     \* names of the files written under debug_html/

vars == <<spider, pc, max_years, urls_file, treaty_years, year_urls, start_urls,
          init_log, requests, delivered, handled, items, logs, debug_html>>

(***************************************************************************)
(* Bounds of the model.                                                    *)
(***************************************************************************)
MaxYears == 3
MaxFileLines == 2
MaxAnchors == 2
MaxPdfAnchors == 3
MaxParagraphs == 3

(***************************************************************************)
(* Python str operations, on sequences of characters.                      *)
(***************************************************************************)
Digits == <<"0","1","2","3","4","5","6","7","8","9">>
LowerCase == <<"a","b","c","d","e","f","g","h","i","j","k","l","m","n","o","p","q","r","s","t","u","v","w","x","y","z">>
UpperCase == <<"A","B","C","D","E","F","G","H","I","J","K","L","M","N","O","P","Q","R","S","T","U","V","W","X","Y","Z">>

Range(s) == {s[i] : i \in 1..Len(s)}

Min(a, b) == IF a <= b THEN a ELSE b

Max(a, b) == IF a >= b THEN a ELSE b

DigitChars == Range(Digits)

UpperChars == Range(UpperCase)

SpaceChars == {" ", "\t", "\n", "\r", "\f"}

WordChars == DigitChars \cup Range(LowerCase) \cup UpperChars \cup {"_"}

\* \d of the re module
IsDigit(c) == c \in DigitChars

\* \s of the re module, and the characters str.strip() removes
IsSpace(c) == c \in SpaceChars

\* \w of the re module
IsWord(c) == c \in WordChars

IndexIn(c, s) == CHOOSE i \in 1..Len(s) : s[i] = c

DigitValue(c) == IndexIn(c, Digits) - 1

\* str.lower()
Lower(s) == [i \in 1..Len(s) |->
               IF s[i] \in UpperChars THEN LowerCase[IndexIn(s[i], UpperCase)] ELSE s[i]]

\* s[i:] starts with p (i is 1-based)
StartsWithAt(s, i, p) ==
    /\ i >= 1
    /\ i + Len(p) - 1 <= Len(s)
    /\ \A k \in 1..Len(p) : s[i + k - 1] = p[k]

StartsWith(s, p) == StartsWithAt(s, 1, p)

EndsWith(s, p) == Len(p) <= Len(s) /\ StartsWithAt(s, Len(s) - Len(p) + 1, p)

\* p in s
Contains(s, p) == \E i \in 1..(Len(s) + 1) : StartsWithAt(s, i, p)

\* str.strip()
Strip(s) ==
    LET keep == {i \in 1..Len(s) : ~IsSpace(s[i])}
    IN  IF keep = {} THEN <<>>
        ELSE SubSeq(s, CHOOSE i \in keep : \A j \in keep : i <= j,
                       CHOOSE i \in keep : \A j \in keep : i >= j)

\* str.replace(c, '') for a one-character c
RECURSIVE RemoveChar(_, _)
RemoveChar(s, c) ==
    IF s = <<>> THEN <<>>
    ELSE (IF Head(s) = c THEN <<>> ELSE <<Head(s)>>) \o RemoveChar(Tail(s), c)

\* sep.join(parts)
RECURSIVE Join(_, _)
Join(sep, parts) ==
    IF parts = <<>> THEN <<>>
    ELSE IF Len(parts) = 1 THEN parts[1]
    ELSE parts[1] \o sep \o Join(sep, Tail(parts))

\* s.split(sep), sep not empty
RECURSIVE SplitFrom(_, _, _, _)
SplitFrom(s, sep, start, i) ==
    IF i > Len(s) THEN <<SubSeq(s, start, Len(s))>>
    ELSE IF StartsWithAt(s, i, sep)
         THEN <<SubSeq(s, start, i - 1)>> \o SplitFrom(s, sep, i + Len(sep), i + Len(sep))
         ELSE SplitFrom(s, sep, start, i + 1)

Split(s, sep) == SplitFrom(s, sep, 1, 1)

\* a slip: seq[n:] in place of seq[:n]
SliceFrom(seq, n) ==
    IF n >= 0 THEN SubSeq(seq, Min(n, Len(seq)) + 1, Len(seq))
    ELSE SubSeq(seq, Max(Len(seq) + n, 0) + 1, Len(seq))

\* seq[:n]
SliceTo(seq, n) ==
    IF n >= 0 THEN SubSeq(seq, 1, Min(n, Len(seq)))
    ELSE SubSeq(seq, 1, Max(Len(seq) + n, 0))

RECURSIVE DecimalValue(_)
DecimalValue(ds) ==
    IF ds = <<>> THEN 0
    ELSE 10 * DecimalValue(SubSeq(ds, 1, Len(ds) - 1)) + DigitValue(ds[Len(ds)])

\* int(s) for a str: <<n>>, or <<>> where Python raises ValueError.
\* Surrounding whitespace and one sign are accepted; the inputs of the model
\* hold no underscore and no non-ASCII digit.
ParseInt(s) ==
    LET t == Strip(s)
        signed == t /= <<>> /\ t[1] \in {"+", "-"}
        ds == IF signed THEN Tail(t) ELSE t
    IN  IF ds = <<>> \/ \E i \in 1..Len(ds) : ~IsDigit(ds[i]) THEN <<>>
        ELSE IF signed /\ t[1] = "-" THEN <<0 - DecimalValue(ds)>>
        ELSE <<DecimalValue(ds)>>

\* the orders list(set(...)) may produce: every sequence without repetition
\* whose elements are exactly those of S
Orderings(S) ==
    {f \in [1..Cardinality(S) -> S] : \A i, j \in 1..Cardinality(S) : f[i] = f[j] => i = j}

\* truthiness of an optional str argument: not None and not ''
Truthy(opt) == opt /= <<>> /\ opt[1] /= <<>>

(***************************************************************************)
(* Logging.  scrapy.Spider.log(message, level=logging.DEBUG): a call that  *)
(* passes no level logs at DEBUG.                                          *)
(***************************************************************************)
DefaultLogLevel == "DEBUG"

\* one log line: its level, which message of the source it is, and the URL
\* the message is formatted with (<<>>: none)
LogLine(level, message, url) == [level |-> level, message |-> message, url |-> url]

(***************************************************************************)
(* TiasLinksSpider.__init__                                                *)
(***************************************************************************)
Domain == <<"h","t","t","p","s",":","/","/","w","w","w",".","s","t","a","t","e",".","g","o","v">>

YearUrlSuffix == <<"-","T","I","A","S","/","?","r","e","s","u","l","t","s","=","2","0","0">>

\* f'https://www.state.gov/{year}-TIAS/?results=200'
YearUrl(year) == Domain \o <<"/">> \o year \o YearUrlSuffix

AllYearUrls(years) == [i \in 1..Len(years) |-> YearUrl(years[i])]

\* a slip: a limit that is not positive is taken as no limit
TruncatedYearUrlsIfPositive(urls, limit) ==
    IF Truthy(limit) /\ ParseInt(limit[1]) /= <<>> /\ ParseInt(limit[1])[1] > 0
    THEN SliceTo(urls, ParseInt(limit[1])[1])
    ELSE urls

\* self.year_urls after the "if max_years:" block
TruncatedYearUrls(urls, limit) ==
    IF Truthy(limit) /\ ParseInt(limit[1]) /= <<>>
    THEN SliceTo(urls, ParseInt(limit[1])[1])
    ELSE urls

\* a slip: the ValueError is swallowed without the warning
LinksInitLogSilent(limit) == <<LogLine("DEBUG", "Processing year URLs", <<>>)>>

\* the log lines of __init__
LinksInitLog(limit) ==
    (IF Truthy(limit) /\ ParseInt(limit[1]) = <<>>
     THEN <<LogLine("WARNING", "Invalid max_years", <<>>)>>
     ELSE <<>>)
    \o <<LogLine("DEBUG", "Processing year URLs", <<>>)>>

LinksInit ==
    /\ spider = "tias_links_spider"
    /\ pc = "new"
    /\ year_urls' = TruncatedYearUrls(AllYearUrls(treaty_years), max_years)
    /\ init_log' = LinksInitLog(max_years)
    /\ pc' = "constructed"
    /\ UNCHANGED <<spider, max_years, urls_file, treaty_years, start_urls, requests,
                   delivered, handled, items, logs, debug_html>>

(***************************************************************************)
(* TiasLinksSpider.start_requests: one request per year URL, in order.     *)
(***************************************************************************)
NoneYet(n) == [i \in 1..n |-> <<>>]

LinksStartRequests ==
    /\ spider = "tias_links_spider"
    /\ pc = "constructed"
    /\ requests' = year_urls
    /\ delivered' = NoneYet(Len(year_urls))
    /\ items' = NoneYet(Len(year_urls))
    /\ logs' = NoneYet(Len(year_urls))
    /\ pc' = "crawling"
    /\ UNCHANGED <<spider, max_years, urls_file, treaty_years, year_urls, start_urls,
                   init_log, handled, debug_html>>

(***************************************************************************)
(* What the downloader hands to a callback or an errback.  A rendered      *)
(* index page is its free text (body) and its <a> elements in document     *)
(* order; an anchor records whether it lies inside ul.collection-results,  *)
(* whether it has the class collection-result__link, and its href          *)
(* attribute (<<>>: no such attribute).                                    *)
(***************************************************************************)
Response(status, page, url) == [kind |-> "response", status |-> status, page |-> page, url |-> url]

Failure(exc, url) == [kind |-> "failure", exc |-> exc, url |-> url]

Anchor(in_results, link_class, href) ==
    [in_results |-> in_results, link_class |-> link_class, href |-> href]

IndexPage(body, anchors) == [body |-> body, anchors |-> anchors]

\* the markup of one <a> element, as it stands in response.text
AnchorMarkup(a) ==
    <<"<","a">>
    \o (IF a.href = <<>> THEN <<>>
        ELSE <<" ","h","r","e","f","=","\"">> \o a.href[1] \o <<"\"">>)
    \o <<">">>

RECURSIVE Concat(_)
Concat(parts) == IF parts = <<>> THEN <<>> ELSE Head(parts) \o Concat(Tail(parts))

\* response.text of an index page
IndexText(page) ==
    page.body \o Concat([i \in 1..Len(page.anchors) |-> AnchorMarkup(page.anchors[i])])

(***************************************************************************)
(* The blocked-response guard, the same expression in both spiders.        *)
(***************************************************************************)
Forbidden == <<"f","o","r","b","i","d","d","e","n">>

BlockedStatuses == {403, 429}

\* 'forbidden' in response.text.lower() or response.status in [403, 429]
Blocked(text, status) == Contains(Lower(text), Forbidden) \/ status \in BlockedStatuses

(***************************************************************************)
(* TiasLinksSpider.parse                                                   *)
(***************************************************************************)
SitePrefix == Domain \o <<"/">>

\* the first index >= i of character c in s, 0 if there is none
RECURSIVE Find(_, _, _)
Find(s, c, i) ==
    IF i > Len(s) THEN 0 ELSE IF s[i] = c THEN i ELSE Find(s, c, i + 1)

\* re.findall(r'\((https://www\.state\.gov/[^\)]+)\)', text), scanning from i:
\* leftmost matches, none overlapping another
RECURSIVE MarkdownLinksFrom(_, _)
MarkdownLinksFrom(text, i) ==
    IF i > Len(text) THEN <<>>
    ELSE LET p == i + 1 + Len(SitePrefix)
             j == Find(text, ")", p)
         IN  IF text[i] = "(" /\ StartsWithAt(text, i + 1, SitePrefix) /\ j > p
             THEN <<SubSeq(text, i + 1, j - 1)>> \o MarkdownLinksFrom(text, j + 1)
             ELSE MarkdownLinksFrom(text, i + 1)

MarkdownLinks(text) == MarkdownLinksFrom(text, 1)

\* '$' without re.MULTILINE: the end of the string, or just before a newline
\* that ends the string; e is the index after the last character consumed
AtDollar(s, e) == e = Len(s) + 1 \/ (e = Len(s) /\ s[e] = "\n")

DigitAt(s, i) == i >= 1 /\ i <= Len(s) /\ IsDigit(s[i])

\* re.match(r'https://www\.state\.gov/\d{2}-\d{3,4}$', link)
IsAgreementUrl(link) ==
    LET q == Len(SitePrefix)
    IN  /\ StartsWith(link, SitePrefix)
        /\ DigitAt(link, q + 1) /\ DigitAt(link, q + 2)
        /\ q + 3 <= Len(link) /\ link[q + 3] = "-"
        /\ DigitAt(link, q + 4) /\ DigitAt(link, q + 5) /\ DigitAt(link, q + 6)
        /\ \/ DigitAt(link, q + 7) /\ AtDollar(link, q + 8)
           \/ AtDollar(link, q + 7)

\* response.css('ul.collection-results a.collection-result__link::attr(href)').getall()
ResultLinkHrefs(page) ==
    LET sel == SelectSeq(page.anchors,
                         LAMBDA a : a.in_results /\ a.link_class /\ a.href /= <<>>)
    IN  [i \in 1..Len(sel) |-> sel[i].href[1]]

\* response.css('a::attr(href)').getall(), used for a log line only
AllHrefs(page) ==
    LET sel == SelectSeq(page.anchors, LAMBDA a : a.href /= <<>>)
    IN  [i \in 1..Len(sel) |-> sel[i].href[1]]

YearIndexMarker == <<"t","r","e","a","t","i","e","s","-","a","n","d","-","a","g","r","e","e","m","e","n","t","s">>

\* if link and 'treaties-and-agreements' not in link.lower()
KeepHref(link) == link /= <<>> /\ ~Contains(Lower(link), YearIndexMarker)

\* a slip: the list is kept as it is, repetitions included
ListKeepingDuplicates(xs) == {xs}

\* list(set(xs)): the lists it may return
ListOfSet(xs) == Orderings(Range(xs))

\* agreement_links after the extend, before the final list(set(...));
\* links is the list(set(links)) of the hrefs
ExtendedAgreementLinks(page, links) ==
    SelectSeq(MarkdownLinks(IndexText(page)), IsAgreementUrl)
    \o SelectSeq(links, KeepHref)

\* the lists parse may iterate over to yield its items
AgreementLinkLists(page) ==
    UNION {ListOfSet(ExtendedAgreementLinks(page, links)) :
             links \in ListOfSet(ResultLinkHrefs(page))}

\* html_file: response.url.split('/')[-2]
DebugFileName(url) == LET parts == Split(url, <<"/">>) IN parts[Len(parts) - 1]

LinksParseHead(r) ==
    << LogLine("DEBUG", "Processing URL", <<r.url>>),
       LogLine("DEBUG", "Response headers", <<>>),
       LogLine("DEBUG", "Saved HTML", <<>>) >>

LinksParse(i) ==
    /\ spider = "tias_links_spider"
    /\ pc = "crawling"
    /\ i \in 1..Len(requests)
    /\ i \notin handled
    /\ delivered[i] /= <<>>
    /\ delivered[i][1].kind = "response"
    /\ LET r == delivered[i][1]
       IN  /\ debug_html' = debug_html \cup {DebugFileName(r.url)}
           /\ IF Blocked(IndexText(r.page), r.status)
              THEN /\ logs' = [logs EXCEPT ![i] = LinksParseHead(r)
                                 \o <<LogLine("ERROR", "Blocked or forbidden response", <<r.url>>)>>]
                   /\ items' = [items EXCEPT ![i] = <<>>]
              ELSE \E links \in AgreementLinkLists(r.page) :
                   /\ logs' = [logs EXCEPT ![i] = LinksParseHead(r)
                                 \o << LogLine("DEBUG", "Found markdown links", <<>>),
                                       LogLine("DEBUG", "Found total <a> hrefs", <<>>),
                                       LogLine("DEBUG", "Found agreement-like hrefs", <<>>),
                                       LogLine("DEBUG", "Total unique agreement links", <<>>) >>
                                 \o [k \in 1..Len(links) |->
                                       LogLine("DEBUG", "Yielding link", <<links[k]>>)]]
                   /\ items' = [items EXCEPT ![i] = [k \in 1..Len(links) |-> [URL |-> links[k]]]]
    /\ handled' = handled \cup {i}
    /\ UNCHANGED <<spider, pc, max_years, urls_file, treaty_years, year_urls, start_urls,
                   init_log, requests, delivered>>

(***************************************************************************)
(* TiasLinksSpider.errback                                                 *)
(***************************************************************************)
LinksErrbackLog(f) ==
    << LogLine("ERROR", "Request failed", <<>>),
       IF f.exc = "IgnoreRequest"
       THEN LogLine("WARNING", "Ignored request", <<f.url>>)
       ELSE LogLine("ERROR", "Error on", <<f.url>>) >>

LinksErrback(i) ==
    /\ spider = "tias_links_spider"
    /\ pc = "crawling"
    /\ i \in 1..Len(requests)
    /\ i \notin handled
    /\ delivered[i] /= <<>>
    /\ delivered[i][1].kind = "failure"
    /\ logs' = [logs EXCEPT ![i] = LinksErrbackLog(delivered[i][1])]
    /\ handled' = handled \cup {i}
    /\ UNCHANGED <<spider, pc, max_years, urls_file, treaty_years, year_urls, start_urls,
                   init_log, requests, delivered, items, debug_html>>

(***************************************************************************)
(* TiasPdfSpider.__init__ and start_requests                               *)
(***************************************************************************)
DefaultStartUrls ==
    << Domain \o <<"/","1","6","-","6","2","9","/">>,
       Domain \o <<"/","1","0","-","4","1","3">>,
       Domain \o <<"/","a","r","g","e","n","t","i","n","a","-","9","7","-","8","2","6">> >>

\* [line.strip() for line in f if line.strip()]
StrippedLines(lines) ==
    LET kept == SelectSeq(lines, LAMBDA line : Strip(line) /= <<>>)
    IN  [i \in 1..Len(kept) |-> Strip(kept[i])]

PdfInit ==
    /\ spider = "tias_pdf_spider"
    /\ pc = "new"
    /\ start_urls' = IF urls_file /= <<>> THEN StrippedLines(urls_file[1]) ELSE DefaultStartUrls
    /\ pc' = "constructed"
    /\ UNCHANGED <<spider, max_years, urls_file, treaty_years, year_urls, init_log,
                   requests, delivered, handled, items, logs, debug_html>>

PdfStartRequests ==
    /\ spider = "tias_pdf_spider"
    /\ pc = "constructed"
    /\ requests' = start_urls
    /\ delivered' = NoneYet(Len(start_urls))
    /\ items' = NoneYet(Len(start_urls))
    /\ logs' = NoneYet(Len(start_urls))
    /\ pc' = "crawling"
    /\ UNCHANGED <<spider, max_years, urls_file, treaty_years, year_urls, start_urls,
                   init_log, handled, debug_html>>

(***************************************************************************)
(* A rendered agreement page: its headline h1 (<<>>: none; exact tells     *)
(* whether its markup is literally                                         *)
(* class="featured-content__headline stars-above">, which the title        *)
(* pattern needs and the CSS selector does not), the text nodes under its  *)
(* <p> elements in document order, and its <a> elements: href (<<>>: no    *)
(* attribute), text, and whether it has the class button--download.        *)
(***************************************************************************)
Headline(exact, inner) == [exact |-> exact, inner |-> inner]

PdfAnchor(href, text, download) == [href |-> href, text |-> text, download |-> download]

DetailPage(h1, paragraph_nodes, anchors) ==
    [h1 |-> h1, paragraph_nodes |-> paragraph_nodes, anchors |-> anchors]

\* response.text of an agreement page
DetailText(page) ==
    (IF page.h1 = <<>> THEN <<>> ELSE <<"<","h","1",">">> \o page.h1[1].inner)
    \o Concat([i \in 1..Len(page.paragraph_nodes) |-> <<"<","p",">">> \o page.paragraph_nodes[i]])
    \o Concat([i \in 1..Len(page.anchors) |->
                 <<"<","a">>
                 \o (IF page.anchors[i].href = <<>> THEN <<>> ELSE <<" ">> \o page.anchors[i].href[1])
                 \o <<">">> \o page.anchors[i].text])

(***************************************************************************)
(* TiasPdfSpider.parse: the fields                                         *)
(***************************************************************************)
\* title: the pattern over the raw text (group 1 is the inner text without
\* the white space around it), then strip() and the two replace(); when that
\* is empty, the text of the h1 the CSS selector finds, stripped
Title(page) ==
    LET byPattern ==
            IF page.h1 /= <<>> /\ page.h1[1].exact
            THEN RemoveChar(RemoveChar(Strip(Strip(page.h1[1].inner)), "\n"), "\t")
            ELSE <<>>
    IN  IF byPattern /= <<>> THEN byPattern
        ELSE IF page.h1 /= <<>> THEN Strip(page.h1[1].inner)
        ELSE <<>>

\* [p.strip() for p in paragraph_nodes if p.strip()]
Paragraphs(paragraph_nodes) == StrippedLines(paragraph_nodes)

ParagraphDelimiter == <<" ","|"," ">>

\* a slip: the paragraphs are joined with a space
ParagraphsTextBySpace(paragraphs) == Join(<<" ">>, paragraphs)

\* ' | '.join(paragraphs)
ParagraphsText(paragraphs) == Join(ParagraphDelimiter, paragraphs)

WordAt(s, i) == i >= 1 /\ i <= Len(s) /\ IsWord(s[i])

\* \b between s[i-1] and s[i]
WordBoundary(s, i) == WordAt(s, i - 1) /= WordAt(s, i)

\* a match of r'\b\d{2}[-\s]?\d{3,4}\b' starting at i: the index after its
\* last character, 0 if there is none.  The separator and the fourth digit
\* are tried first, as the greedy quantifiers try them.
CodeMatchEnd(s, i) ==
    LET sep == i + 2 <= Len(s) /\ (s[i + 2] = "-" \/ IsSpace(s[i + 2]))
        k == IF sep THEN i + 3 ELSE i + 2
    IN  IF /\ DigitAt(s, i) /\ DigitAt(s, i + 1) /\ WordBoundary(s, i)
           /\ DigitAt(s, k) /\ DigitAt(s, k + 1) /\ DigitAt(s, k + 2)
        THEN IF DigitAt(s, k + 3) /\ WordBoundary(s, k + 4) THEN k + 4
             ELSE IF WordBoundary(s, k + 3) THEN k + 3
             ELSE 0
        ELSE 0

\* re.findall(code_pattern, s), scanning from i
RECURSIVE FindCodesFrom(_, _)
FindCodesFrom(s, i) ==
    IF i > Len(s) THEN <<>>
    ELSE LET e == CodeMatchEnd(s, i)
         IN  IF e > 0 THEN <<SubSeq(s, i, e - 1)>> \o FindCodesFrom(s, e)
             ELSE FindCodesFrom(s, i + 1)

FindCodes(s) == FindCodesFrom(s, 1)

PdfSuffix == <<".","p","d","f">>

\* the elements response.css('a[href$=".pdf"]') selects
PdfAnchors(page) ==
    SelectSeq(page.anchors, LAMBDA a : a.href /= <<>> /\ EndsWith(a.href[1], PdfSuffix))

\* agreement_codes before list(set(...)): the matches over the joined
\* paragraphs, then those over the text of each PDF anchor
AgreementCodes(page) ==
    FindCodes(ParagraphsText(Paragraphs(page.paragraph_nodes)))
    \o Concat([i \in 1..Len(PdfAnchors(page)) |-> FindCodes(PdfAnchors(page)[i].text)])

CodeSeparator == <<","," ">>

SchemeMark == <<":","/","/">>

\* the index of the first '/' of the path of an absolute URL, 0 if it has no path
PathStart(url) ==
    LET m == CHOOSE i \in 1..Len(url) : StartsWithAt(url, i, SchemeMark)
    IN  Find(url, "/", m + Len(SchemeMark))

HasScheme(url) == \E i \in 2..Len(url) : StartsWithAt(url, i, SchemeMark)

\* urllib.parse.urljoin(base, url) for an absolute base and a url that is
\* absolute, rooted ('/...') or relative to the directory of the base; the
\* URLs of the model hold no '.' or '..' segment, query or fragment
UrlJoin(base, url) ==
    LET ps == PathStart(base)
        root == IF ps = 0 THEN base ELSE SubSeq(base, 1, ps - 1)
        lastSlash == IF ps = 0 THEN 0
                     ELSE CHOOSE i \in ps..Len(base) :
                            base[i] = "/" /\ \A j \in ps..Len(base) : base[j] = "/" => j <= i
        dir == IF ps = 0 THEN base \o <<"/">> ELSE SubSeq(base, 1, lastSlash)
    IN  IF url = <<>> THEN base
        ELSE IF HasScheme(url) THEN url
        ELSE IF url[1] = "/" THEN root \o url
        ELSE dir \o url

\* response.css('a.button--download::attr(href)').get(default=''), then urljoin
PrimaryPdf(r) ==
    LET sel == SelectSeq(r.page.anchors, LAMBDA a : a.download /\ a.href /= <<>>)
        href == IF sel = <<>> THEN <<>> ELSE sel[1].href[1]
    IN  IF href /= <<>> THEN UrlJoin(r.url, href) ELSE <<>>

\* all_pdf_links after urljoin
AllPdfLinks(r) == [i \in 1..Len(PdfAnchors(r.page)) |-> UrlJoin(r.url, PdfAnchors(r.page)[i].href[1])]

\* a slip: the hrefs are compared with primary_pdf before they are resolved
OtherPdfsByRawHref(r) ==
    LET kept == SelectSeq(PdfAnchors(r.page), LAMBDA a : a.href[1] /= PrimaryPdf(r))
    IN  [i \in 1..Len(kept) |-> UrlJoin(r.url, kept[i].href[1])]

\* [link for link in all_pdf_links if link != primary_pdf]
OtherPdfs(r) == SelectSeq(AllPdfLinks(r), LAMBDA link : link /= PrimaryPdf(r))

\* the item parse yields; codes is the list(set(agreement_codes))
PdfItem(r, codes) ==
    [source_url |-> r.url,
     title |-> Title(r.page),
     paragraphs |-> ParagraphsText(Paragraphs(r.page.paragraph_nodes)),
     agreement_codes |-> Join(CodeSeparator, codes),
     primary_pdf |-> PrimaryPdf(r),
     other_pdfs |-> Join(CodeSeparator, OtherPdfs(r))]

\* a slip: a page from which nothing was extracted yields no item
PdfItemsUnlessEmpty(r, codes) ==
    IF /\ Title(r.page) = <<>> /\ Paragraphs(r.page.paragraph_nodes) = <<>>
       /\ codes = <<>> /\ PrimaryPdf(r) = <<>> /\ OtherPdfs(r) = <<>>
    THEN <<>>
    ELSE <<PdfItem(r, codes)>>

\* the items parse yields for a response that is not blocked
PdfItems(r, codes) == <<PdfItem(r, codes)>>

PdfParse(i) ==
    /\ spider = "tias_pdf_spider"
    /\ pc = "crawling"
    /\ i \in 1..Len(requests)
    /\ i \notin handled
    /\ delivered[i] /= <<>>
    /\ delivered[i][1].kind = "response"
    /\ LET r == delivered[i][1]
           head == << LogLine(DefaultLogLevel, "Processing URL", <<r.url>>),
                      LogLine(DefaultLogLevel, "Response headers", <<>>) >>
       IN  IF Blocked(DetailText(r.page), r.status)
           THEN /\ logs' = [logs EXCEPT ![i] = head
                              \o <<LogLine(DefaultLogLevel, "Blocked or forbidden response", <<r.url>>)>>]
                /\ items' = [items EXCEPT ![i] = <<>>]
           ELSE \E codes \in ListOfSet(AgreementCodes(r.page)) :
                /\ logs' = [logs EXCEPT ![i] = head
                              \o << LogLine(DefaultLogLevel, "Extracted title", <<>>),
                                    LogLine(DefaultLogLevel, "Extracted paragraphs", <<>>),
                                    LogLine(DefaultLogLevel, "Extracted agreement codes", <<>>),
                                    LogLine(DefaultLogLevel, "Primary PDF", <<>>),
                                    LogLine(DefaultLogLevel, "Found other PDF links", <<>>) >>]
                /\ items' = [items EXCEPT ![i] = PdfItems(r, codes)]
    /\ handled' = handled \cup {i}
    /\ UNCHANGED <<spider, pc, max_years, urls_file, treaty_years, year_urls, start_urls,
                   init_log, requests, delivered, debug_html>>

(***************************************************************************)
(* TiasPdfSpider.errback                                                   *)
(***************************************************************************)
PdfErrbackLog(f) ==
    << LogLine(DefaultLogLevel, "Request failed", <<>>),
       IF f.exc = "IgnoreRequest"
       THEN LogLine(DefaultLogLevel, "Ignored request", <<f.url>>)
       ELSE LogLine(DefaultLogLevel, "Error on", <<f.url>>) >>

PdfErrback(i) ==
    /\ spider = "tias_pdf_spider"
    /\ pc = "crawling"
    /\ i \in 1..Len(requests)
    /\ i \notin handled
    /\ delivered[i] /= <<>>
    /\ delivered[i][1].kind = "failure"
    /\ logs' = [logs EXCEPT ![i] = PdfErrbackLog(delivered[i][1])]
    /\ handled' = handled \cup {i}
    /\ UNCHANGED <<spider, pc, max_years, urls_file, treaty_years, year_urls, start_urls,
                   init_log, requests, delivered, items, debug_html>>

(***************************************************************************)
(* The downloader.  CONCURRENT_REQUESTS is 1: a request is downloaded only *)
(* when every delivered one has been handled.  It hands the request either *)
(* a response (to parse) or a failure (to errback); what it hands over is  *)
(* drawn from the outcomes the site may produce.                           *)
(***************************************************************************)
PoolResponse(status, page) == [kind |-> "response", status |-> status, page |-> page]

PoolFailure(exc) == [kind |-> "failure", exc |-> exc]

Deliver(o, url) ==
    IF o.kind = "response" THEN Response(o.status, o.page, url) ELSE Failure(o.exc, url)

Fetch(indexOutcomes, detailOutcomes) ==
    /\ pc = "crawling"
    /\ \A j \in 1..Len(requests) : delivered[j] /= <<>> => j \in handled
    /\ \E i \in 1..Len(requests) :
         /\ delivered[i] = <<>>
         /\ \E o \in (IF spider = "tias_links_spider" THEN indexOutcomes ELSE detailOutcomes) :
              delivered' = [delivered EXCEPT ![i] = <<Deliver(o, requests[i])>>]
    /\ UNCHANGED <<spider, pc, max_years, urls_file, treaty_years, year_urls, start_urls,
                   init_log, requests, handled, items, logs, debug_html>>

SeqsUpTo(S, n) == UNION {[1..k -> S] : k \in 0..n}

Failures == {PoolFailure("IgnoreRequest"), PoolFailure("TimeoutError")}

(***************************************************************************)
(* Inputs of a whole crawl: a few pages per spider.                        *)
(***************************************************************************)
Href10413 == <<"/","1","0","-","4","1","3">>

MarkdownLink(url) == <<"(">> \o url \o <<")">>

EmptyIndexPage == IndexPage(<<>>, <<>>)

OneLinkIndexPage == IndexPage(<<>>, <<Anchor(TRUE, TRUE, <<Href10413>>)>>)

ForbiddenIndexPage ==
    IndexPage(<<"A","c","c","e","s","s"," ","F","o","r","b","i","d","d","e","n">>, <<>>)

BothMethodsIndexPage ==
    IndexPage(MarkdownLink(Domain \o Href10413), <<Anchor(TRUE, TRUE, <<Domain \o Href10413>>)>>)

CrawlIndexOutcomes ==
    { PoolResponse(200, EmptyIndexPage), PoolResponse(403, EmptyIndexPage),
      PoolResponse(429, OneLinkIndexPage), PoolResponse(200, OneLinkIndexPage),
      PoolResponse(200, ForbiddenIndexPage), PoolResponse(200, BothMethodsIndexPage) }
    \cup Failures

DocsA == <<"/","d","o","c","s","/","a",".","p","d","f">>

DocsB == <<"/","d","o","c","s","/","b",".","p","d","f">>

Code12345 == <<"1","2","-","3","4","5">>

EmptyDetailPage == DetailPage(<<>>, <<>>, <<>>)

TradeDetailPage ==
    DetailPage(<<Headline(TRUE, <<"A","g","r","e","e","m","e","n","t"," ","o","n"," ","T","r","a","d","e">>)>>,
               << <<"E","n","t","e","r","e","d"," ","i","n","t","o"," ","f","o","r","c","e"," ">>,
                  Code12345 >>,
               << PdfAnchor(<<DocsA>>, <<>>, TRUE), PdfAnchor(<<DocsB>>, <<>>, FALSE) >>)

ForbiddenDetailPage ==
    DetailPage(<<>>, << <<"4","0","3"," ","F","o","r","b","i","d","d","e","n">> >>, <<>>)

CrawlDetailOutcomes ==
    { PoolResponse(200, EmptyDetailPage), PoolResponse(403, EmptyDetailPage),
      PoolResponse(429, TradeDetailPage), PoolResponse(200, TradeDetailPage),
      PoolResponse(200, ForbiddenDetailPage) }
    \cup Failures

\* the i-th year of treaty_years.csv, as astype(str) gives it
YearString(i) == <<"2","0","1", Digits[i + 1]>>

Years(n) == [i \in 1..n |-> YearString(i)]

\* values of -a max_years=...
YearLimitArgs ==
    { <<"1">>, <<"2">>, <<"3">>, <<"1","0">>, <<" ","2">>, <<"+","1">>,
      <<"0">>, <<"-","1">>, <<"-","2">>, <<"-","5">>,
      <<"a","b","c">>, <<"1",".","5">>, <<>> }

Url16629 == Domain \o <<"/","1","6","-","6","2","9","/">>

Url10413 == Domain \o Href10413

\* lines of a urls_file
FileLines == { Url16629 \o <<"\n">>, <<" ">> \o Url10413 \o <<" ","\n">>, <<"\n">>, <<" ","\t","\n">> }

NewSpider(name, limit, file, years) ==
    /\ spider = name
    /\ pc = "new"
    /\ max_years = limit
    /\ urls_file = file
    /\ treaty_years = years
    /\ year_urls = <<>>
    /\ start_urls = (IF name = "tias_pdf_spider" THEN DefaultStartUrls ELSE <<>>)
    /\ init_log = <<>>
    /\ requests = <<>>
    /\ delivered = <<>>
    /\ handled = {}
    /\ items = <<>>
    /\ logs = <<>>
    /\ debug_html = {}

Init ==
    \/ \E n \in 0..MaxYears, limit \in {<<>>} \cup {<<a>> : a \in YearLimitArgs} :
         NewSpider("tias_links_spider", limit, <<>>, Years(n))
    \/ \E file \in {<<>>} \cup {<<f>> : f \in SeqsUpTo(FileLines, MaxFileLines)} :
         NewSpider("tias_pdf_spider", <<>>, file, <<>>)

Handlers ==
    \/ LinksInit
    \/ LinksStartRequests
    \/ \E i \in 1..Len(requests) : LinksParse(i)
    \/ \E i \in 1..Len(requests) : LinksErrback(i)
    \/ PdfInit
    \/ PdfStartRequests
    \/ \E i \in 1..Len(requests) : PdfParse(i)
    \/ \E i \in 1..Len(requests) : PdfErrback(i)

Next ==
    \/ Handlers
    \/ Fetch(CrawlIndexOutcomes, CrawlDetailOutcomes)

Spec == Init /\ [][Next]_vars

(***************************************************************************)
(* Inputs of a single request: one seed, and a page drawn from a wide set, *)
(* to exercise the extraction of parse.                                    *)
(***************************************************************************)
HrefArgentina == <<"/","a","r","g","e","n","t","i","n","a","-","9","7","-","8","2","6">>

HrefYearIndex == <<"/","T","r","e","a","t","i","e","s","-","A","n","d","-","A","g","r","e","e","m","e","n","t","s","/">>

Href97826 == <<"/","9","7","-","8","2","6">>

IndexAnchorPool ==
    { Anchor(TRUE, TRUE, <<Href10413>>),
      Anchor(TRUE, TRUE, <<Domain \o Href10413>>),
      Anchor(TRUE, TRUE, <<HrefArgentina>>),
      Anchor(TRUE, TRUE, <<HrefYearIndex>>),
      Anchor(TRUE, TRUE, << <<>> >>),
      Anchor(TRUE, TRUE, <<>>),
      Anchor(TRUE, FALSE, <<Href97826>>),
      Anchor(FALSE, TRUE, <<Href97826>>) }

IndexBodyPool ==
    { <<>>,
      MarkdownLink(Domain \o Href10413),
      MarkdownLink(Domain \o Href10413 \o <<"\n">>),
      MarkdownLink(Domain \o Href10413) \o MarkdownLink(Domain \o <<"/","9","7","-","1","2","3","4">>)
         \o MarkdownLink(Domain \o Href10413),
      MarkdownLink(Domain \o <<"/","1","0","-","4","1","3","4","5">>),
      <<"(">> \o Domain \o <<"/","x">> \o MarkdownLink(Domain \o Href10413),
      MarkdownLink(Domain \o <<"/","t","r","e","a","t","i","e","s","-","a","n","d","-","a","g","r","e","e","m","e","n","t","s">>),
      <<"F","o","r","b","i","d","d","e","n">> }

PageIndexOutcomes ==
    {PoolResponse(200, IndexPage(b, as)) :
        b \in IndexBodyPool, as \in SeqsUpTo(IndexAnchorPool, MaxAnchors)}
    \cup {PoolResponse(403, OneLinkIndexPage)}
    \cup Failures

ParagraphNodePool ==
    { <<"1","2">>,
      <<"3","4","5">>,
      Code12345,
      <<"1","2"," ","3","4","5","6">>,
      <<" ","9","7","-","8","2","6"," ">>,
      <<"-","3","4","5","6">>,
      <<" ","\n">> }

PdfAnchorPool ==
    { PdfAnchor(<<DocsA>>, <<"T","I","A","S"," ","1","2","-","3","4","5">>, TRUE),
      PdfAnchor(<<DocsA>>, <<>>, FALSE),
      PdfAnchor(<<Domain \o DocsA>>, <<"1","2">>, FALSE),
      PdfAnchor(<< <<"a",".","p","d","f">> >>, <<"9","7","-","8","2","6">>, FALSE),
      PdfAnchor(<<DocsB>>, <<>>, TRUE),
      PdfAnchor(<< <<"/","d","o","w","n","l","o","a","d">> >>, Code12345, TRUE),
      PdfAnchor(<<>>, <<>>, TRUE),
      PdfAnchor(<< <<>> >>, <<>>, TRUE) }

HeadlinePool ==
    { <<>>,
      <<Headline(TRUE, <<"A","g","r","e","e","m","e","n","t"," ","o","n"," ","T","r","a","d","e">>)>>,
      <<Headline(TRUE, <<" ","\n","A","g","r","e","e","m","e","n","t","\n","\t","o","n"," ","\n">>)>>,
      <<Headline(FALSE, <<" ","\n","A","g","r","e","e","m","e","n","t","\n","\t","o","n"," ","\n">>)>>,
      <<Headline(TRUE, <<" "," ">>)>> }

PageDetailOutcomes ==
    {PoolResponse(200, DetailPage(<<>>, ps, as)) :
        ps \in SeqsUpTo(ParagraphNodePool, MaxParagraphs),
        as \in {<<>>, <<PdfAnchor(<<DocsA>>, <<"1","2">>, TRUE), PdfAnchor(<<DocsB>>, <<"3","4","5">>, FALSE)>>}}
    \cup {PoolResponse(200, DetailPage(<<>>, <<Code12345>>, as)) :
            as \in SeqsUpTo(PdfAnchorPool, MaxPdfAnchors)}
    \cup {PoolResponse(200, DetailPage(h, TradeDetailPage.paragraph_nodes, TradeDetailPage.anchors)) :
            h \in HeadlinePool}
    \cup {PoolResponse(429, TradeDetailPage), PoolResponse(200, ForbiddenDetailPage)}
    \cup Failures

InitPage ==
    \/ NewSpider("tias_links_spider", <<>>, <<>>, Years(1))
    \/ \E line \in {Url16629 \o <<"\n">>, <<" ">> \o Url10413 \o <<" ","\n">>} :
         NewSpider("tias_pdf_spider", <<>>, <<<<line>>>>, <<>>)

NextPage ==
    \/ Handlers
    \/ Fetch(PageIndexOutcomes, PageDetailOutcomes)

SpecPage == InitPage /\ [][NextPage]_vars

(***************************************************************************)
(* Properties.                                                             *)
(***************************************************************************)
IsLinks == spider = "tias_links_spider"

IsPdf == spider = "tias_pdf_spider"

HandledResponses == {i \in handled : delivered[i][1].kind = "response"}

HandledFailures == {i \in handled : delivered[i][1].kind = "failure"}

\* the blocked set of the guard, for the page of either spider
IsBlockedResponse(r) ==
    \/ r.status \in {403, 429}
    \/ Contains(Lower(IF IsLinks THEN IndexText(r.page) ELSE DetailText(r.page)), Forbidden)

ParsedResponses == {i \in HandledResponses : ~IsBlockedResponse(delivered[i][1])}

LinesAbout(lines, level, url) ==
    {k \in 1..Len(lines) : lines[k].level = level /\ lines[k].url = <<url>>}

NoDuplicates(seq) == \A i, j \in 1..Len(seq) : seq[i] = seq[j] => i = j

\* the elements of a ', '-joined field
JoinedElements(text) == IF text = <<>> THEN {} ELSE Range(Split(text, CodeSeparator))

HasWarning(lines) == \E k \in 1..Len(lines) : lines[k].level = "WARNING"

FullYearList == [k \in 1..Len(treaty_years) |-> YearUrl(treaty_years[k])]

\* C1: in both spiders a blocked response (status 403 or 429, or 'forbidden'
\* in its text in any letter case) yields no item and exactly one
\* error-level log line that references its URL.
C1_BlockedLogsOneError ==
    \A i \in HandledResponses :
        IsBlockedResponse(delivered[i][1]) =>
            /\ items[i] = <<>>
            /\ Cardinality(LinesAbout(logs[i], "ERROR", delivered[i][1].url)) = 1

\* C2, as stated: for a page that is not blocked the index spider yields,
\* without repetition, the hrefs of the anchors inside ul.collection-results
\* and the parenthesized site URLs of the strict shape, minus those that
\* contain 'treaties-and-agreements'.
ContainerHrefs(page) ==
    {page.anchors[k].href[1] :
        k \in {n \in 1..Len(page.anchors) :
                 page.anchors[n].in_results /\ page.anchors[n].href /= <<>>}}

\* domain root, two digits, a hyphen, three or four digits, and nothing else
StrictShape(u) ==
    LET q == Len(SitePrefix)
    IN  /\ Len(u) \in {q + 6, q + 7}
        /\ SubSeq(u, 1, q) = SitePrefix
        /\ u[q + 3] = "-"
        /\ \A k \in ((q + 1)..Len(u)) \ {q + 3} : IsDigit(u[k])

Parenthesized(text) ==
    {SubSeq(text, i + 1, j - 1) :
        i \in {n \in 1..Len(text) : text[n] = "("},
        j \in {n \in 1..Len(text) : text[n] = ")"}}

StrictMarkdownUrls(text) == {u \in Parenthesized(text) : StrictShape(u)}

EmittedUrls(i) == {items[i][k].URL : k \in 1..Len(items[i])}

C2_ContainerAnchorsAndStrictUrls ==
    \A i \in ParsedResponses :
        IsLinks =>
            LET page == delivered[i][1].page
            IN  /\ NoDuplicates(items[i])
                /\ EmittedUrls(i) =
                     {u \in ContainerHrefs(page) \cup StrictMarkdownUrls(IndexText(page)) :
                        ~Contains(u, YearIndexMarker)}

\* C2, amended: the anchors are those of class collection-result__link inside
\* ul.collection-results with a non-empty href; a parenthesized site URL
\* counts when it has the shape, possibly followed by one newline, and its
\* '(' does not lie inside an earlier '(https://www.state.gov/' that is not
\* yet closed; the marker is looked for in any letter case.  For a page that
\* is not blocked the spider yields exactly these links, each once.
ResultLinkHrefSet(page) ==
    {page.anchors[k].href[1] :
        k \in {n \in 1..Len(page.anchors) :
                 /\ page.anchors[n].in_results
                 /\ page.anchors[n].link_class
                 /\ page.anchors[n].href /= <<>>
                 /\ page.anchors[n].href[1] /= <<>>}}

ShapeThenNewline(u) ==
    \/ StrictShape(u)
    \/ Len(u) > 0 /\ u[Len(u)] = "\n" /\ StrictShape(SubSeq(u, 1, Len(u) - 1))

InsideOpenSiteLink(text, i) ==
    \E i0 \in 1..(i - 1) :
        /\ text[i0] = "("
        /\ StartsWithAt(text, i0 + 1, SitePrefix)
        /\ \A k \in i0..i : text[k] /= ")"

ScannedMarkdownUrls(text) ==
    {u \in {SubSeq(text, i + 1, j - 1) :
              i \in {n \in 1..Len(text) : text[n] = "(" /\ ~InsideOpenSiteLink(text, n)},
              j \in {n \in 1..Len(text) : text[n] = ")"}} :
        ShapeThenNewline(u)}

C2_ResultLinksAndScannedUrls ==
    \A i \in ParsedResponses :
        IsLinks =>
            LET page == delivered[i][1].page
            IN  /\ NoDuplicates(items[i])
                /\ EmittedUrls(i) =
                     {u \in ResultLinkHrefSet(page) \cup ScannedMarkdownUrls(IndexText(page)) :
                        ~Contains(Lower(u), YearIndexMarker)}

\* a page where both methods find links, they overlap, a year-index link is
\* dropped, and two links are yielded
C2_Witness ==
    \E i \in ParsedResponses :
        /\ IsLinks
        /\ Len(items[i]) = 2
        /\ \E u \in ResultLinkHrefSet(delivered[i][1].page) : Contains(Lower(u), YearIndexMarker)
        /\ ResultLinkHrefSet(delivered[i][1].page)
             \cap ScannedMarkdownUrls(IndexText(delivered[i][1].page)) /= {}

\* C3: every record of the index spider carries an absolute URL; a
\* site-relative href is yielded joined to the domain, never raw.
C3_EmittedUrlsAbsolute ==
    IsLinks => \A i \in handled : \A u \in EmittedUrls(i) : StartsWith(u, SitePrefix)

\* C4: in every record of the detail spider with a non-empty primary_pdf, no
\* element of other_pdfs equals primary_pdf.
C4_PrimaryNotAmongOthers ==
    \A i \in ParsedResponses :
        IsPdf =>
            \A k \in 1..Len(items[i]) :
                items[i][k].primary_pdf /= <<>> =>
                    items[i][k].primary_pdf \notin JoinedElements(items[i][k].other_pdfs)

\* the download button links a PDF that other anchors link too, under
\* another spelling of the href, and a different PDF is listed
C4_Witness ==
    \E i \in ParsedResponses :
        /\ IsPdf
        /\ Len(items[i]) = 1
        /\ EndsWith(items[i][1].primary_pdf, PdfSuffix)
        /\ items[i][1].other_pdfs /= <<>>
        /\ \E a \in Range(delivered[i][1].page.anchors) :
             /\ ~a.download
             /\ a.href /= <<>>
             /\ a.href[1] /= items[i][1].primary_pdf
             /\ UrlJoin(delivered[i][1].url, a.href[1]) = items[i][1].primary_pdf

\* C5: the detail spider yields exactly one record for a request whose
\* response is not blocked, and none for a request that failed, whose
\* response is blocked, or that is not handled yet.
C5_OneRecordPerParsedPage ==
    IsPdf =>
        \A i \in 1..Len(requests) :
            Len(items[i]) = (IF i \in ParsedResponses THEN 1 ELSE 0)

\* every request is handled: an empty page gave a record of empty fields,
\* a blocked response and a failure gave none
C5_Witness ==
    /\ IsPdf
    /\ pc = "crawling"
    /\ handled = 1..Len(requests)
    /\ \E i \in ParsedResponses :
         items[i] = <<[source_url |-> requests[i], title |-> <<>>, paragraphs |-> <<>>,
                       agreement_codes |-> <<>>, primary_pdf |-> <<>>, other_pdfs |-> <<>>]>>
    /\ HandledResponses \ ParsedResponses /= {}
    /\ HandledFailures /= {}

\* C6: a limit that is a positive integer N gives the first N year URLs when
\* N <= T and all T otherwise, and no limit gives all T, one request each.
C6_RequestsPerYearLimit ==
    (IsLinks /\ pc = "crawling") =>
        LET T == Len(treaty_years)
            n == IF max_years = <<>> THEN <<>> ELSE ParseInt(max_years[1])
        IN  /\ max_years = <<>> => requests = FullYearList
            /\ (n /= <<>> /\ n[1] > 0 /\ n[1] <= T) =>
                  /\ Len(requests) = n[1]
                  /\ \A k \in 1..n[1] : requests[k] = FullYearList[k]
            /\ (n /= <<>> /\ n[1] > T) => requests = FullYearList

C6_Witness ==
    /\ IsLinks
    /\ pc = "crawling"
    /\ max_years = << <<"2">> >>
    /\ Len(treaty_years) = 3
    /\ Len(requests) = 2

\* C7: in both spiders errback yields nothing and logs the failing URL at
\* warning level for an IgnoreRequest failure, at error level for any other.
C7_ErrbackLevels ==
    \A i \in HandledFailures :
        /\ items[i] = <<>>
        /\ LinesAbout(logs[i],
                      IF delivered[i][1].exc = "IgnoreRequest" THEN "WARNING" ELSE "ERROR",
                      delivered[i][1].url) /= {}

\* C8: the set of agreement codes of a record is the set extracted from the
\* page with its paragraph text nodes in any other order.
Permuted(seq, f) == [k \in 1..Len(seq) |-> seq[f[k]]]

C8_CodesUnderReordering ==
    \A i \in ParsedResponses :
        IsPdf =>
            LET page == delivered[i][1].page
            IN  \A f \in Orderings(1..Len(page.paragraph_nodes)) :
                    Range(AgreementCodes([page EXCEPT
                            !.paragraph_nodes = Permuted(page.paragraph_nodes, f)]))
                      = JoinedElements(items[i][1].agreement_codes)

\* paragraphs that hold a code, and two of them that would form another code
\* if a space alone separated them
C8_Witness ==
    \E i \in ParsedResponses :
        /\ IsPdf
        /\ items[i][1].agreement_codes /= <<>>
        /\ LET ps == Paragraphs(delivered[i][1].page.paragraph_nodes)
           IN  /\ Len(ps) >= 3
               /\ Range(FindCodes(Join(<<" ">>, ps))) /= Range(FindCodes(ParagraphsText(ps)))

\* C9, as stated: a limit that does not parse as an integer logs a warning
\* and leaves the full list of year URLs.
NotAnInteger(limit) == limit /= <<>> /\ ParseInt(limit[1]) = <<>>

C9_InvalidLimitWarns ==
    (IsLinks /\ pc /= "new" /\ NotAnInteger(max_years)) =>
        /\ HasWarning(init_log)
        /\ year_urls = FullYearList
        /\ pc = "crawling" => requests = FullYearList

\* C9, amended: a non-empty limit that does not parse as an integer logs a
\* warning and leaves the full list of year URLs; an empty limit leaves the
\* full list too, without a warning.
C9_NonEmptyInvalidLimitWarns ==
    (IsLinks /\ pc /= "new" /\ NotAnInteger(max_years)) =>
        /\ HasWarning(init_log) <=> max_years[1] /= <<>>
        /\ year_urls = FullYearList
        /\ pc = "crawling" => requests = FullYearList

C9_Witness ==
    /\ IsLinks
    /\ pc = "crawling"
    /\ max_years = << <<"a","b","c">> >>
    /\ HasWarning(init_log)
    /\ Len(requests) = 3

\* C10: the limit '0' gives no request and a limit '-k' with 1 <= k < T
\* gives the first T-k year URLs, without a warning; no limit gives more
\* than T requests.
C10_NonPositiveLimit ==
    (IsLinks /\ pc = "crawling") =>
        LET T == Len(treaty_years)
            n == IF max_years = <<>> THEN <<>> ELSE ParseInt(max_years[1])
        IN  /\ Len(requests) <= T
            /\ (n /= <<>> /\ n[1] = 0) => (requests = <<>> /\ ~HasWarning(init_log))
            /\ (n /= <<>> /\ n[1] < 0 /\ 0 - n[1] < T) =>
                  /\ requests = SubSeq(FullYearList, 1, T + n[1])
                  /\ ~HasWarning(init_log)

C10_Witness ==
    /\ IsLinks
    /\ pc = "crawling"
    /\ max_years = << <<"-","1">> >>
    /\ Len(treaty_years) = 3
    /\ Len(requests) = 2
    /\ ~HasWarning(init_log)

====
